---- MODULE Spec2Model ----
(***************************************************************************)
(* Model of .github/scripts/validate-files.py: the repository-structure    *)
(* checker, the filename validator, the YAML content validator and the     *)
(* status reporter (the ENCOUNTERED_ERROR flag and the status file).       *)
(*                                                                         *)
(* Strings are TLA+ strings; a character is a string of length 1.  Parsed  *)
(* YAML data and the folder structure are tagged values:                   *)
(*   [t |-> "str", v |-> s]   [t |-> "int", v |-> n]   [t |-> "none"]      *)
(*   [t |-> "list", v |-> <<...>>]   [t |-> "dict", v |-> [key |-> value]] *)
(***************************************************************************)
EXTENDS Integers, Sequences, FiniteSets, TLC

VARIABLES
    pc,                 \* position of the process: see the actions
    sys_argv,           \* sys.argv, the script name first
    infrastructure,     \* the directory tree at infrastructure/ (or NoDir)
    files,              \* path -> content of the files the run creates or writes
    dirs,               \* the temporary directories that exist
    temp_dir,           \* global temp_dir
    status_file_path,   \* global status_file_path
    files_list_path,    \* main's local files_list_path
    ENCOUNTERED_ERROR,  \* global ENCOUNTERED_ERROR
    writes,             \* number of executions of write_error_status
    out,                \* what the last step printed
    exit_code,          \* the process's exit code (-1 while it runs)
    ncalls,             \* number of validator calls made by the caller
    last                \* the last call: [op, arg, ret]

vars == <<pc, sys_argv, infrastructure, files, dirs, temp_dir, status_file_path,
          files_list_path, ENCOUNTERED_ERROR, writes, out, exit_code, ncalls, last>>

---------------------------------------------------------------------------
(* Bounds *)

MaxBody == 2

MaxCalls == 3

---------------------------------------------------------------------------
(* Python string operations *)

AsciiUpper == "ABCDEFGHIJKLMNOPQRSTUVWXYZ"

AsciiLower == "abcdefghijklmnopqrstuvwxyz"

Digits == "0123456789"

\* Letters outside ASCII that occur in the inputs (str.isalpha is Unicode-aware).
NonAsciiLetters == {"é"}

CharAt(s, i) == SubSeq(s, i, i)

CharsOf(s) == {CharAt(s, i) : i \in 1..Len(s)}

AsciiLetters == CharsOf(AsciiUpper) \cup CharsOf(AsciiLower)

isalpha(char) == char \in AsciiLetters \cup NonAsciiLetters

startswith(s, prefix) ==
    Len(s) >= Len(prefix) /\ SubSeq(s, 1, Len(prefix)) = prefix

endswith(s, suffix) ==
    Len(s) >= Len(suffix) /\ SubSeq(s, Len(s) - Len(suffix) + 1, Len(s)) = suffix

LowerMap == [c \in CharsOf(AsciiUpper) |->
                CharAt(AsciiLower, CHOOSE i \in 1..26 : CharAt(AsciiUpper, i) = c)]

LowerChar(c) == IF c \in DOMAIN LowerMap THEN LowerMap[c] ELSE c

RECURSIVE lower(_)
lower(s) == IF s = "" THEN "" ELSE LowerChar(CharAt(s, 1)) \o lower(Tail(s))

\* s.rfind(c), 1-based: the last position of character c in s, 0 when absent.
rfind(s, c) ==
    LET P == {i \in 1..Len(s) : CharAt(s, i) = c}
    IN  IF P = {} THEN 0 ELSE CHOOSE i \in P : \A j \in P : j <= i

RECURSIVE rstrip(_, _)
rstrip(s, c) == IF s # "" /\ CharAt(s, Len(s)) = c THEN rstrip(SubSeq(s, 1, Len(s) - 1), c) ELSE s

\* os.path (posixpath)
join(a, b) == IF endswith(a, "/") THEN a \o b ELSE a \o "/" \o b

basename(p) == SubSeq(p, rfind(p, "/") + 1, Len(p))

dirname(p) ==
    LET head == SubSeq(p, 1, rfind(p, "/"))
    IN  IF head # "" /\ rstrip(head, "/") # "" THEN rstrip(head, "/") ELSE head

\* re.split(r'[-_]', s)[0]: the text before the first hyphen or underscore.
FirstToken(s) ==
    LET P == {i \in 1..Len(s) : CharAt(s, i) \in {"-", "_"}}
    IN  IF P = {} THEN s ELSE SubSeq(s, 1, (CHOOSE i \in P : \A j \in P : i <= j) - 1)

---------------------------------------------------------------------------
(* validate_filename *)

\* validate_filename with the body always cut as for '.yml': for a '.yaml' name
\* the body keeps the dot.
validate_filename_cut4(filename) ==
    IF ~ startswith(filename, "td-")
    THEN <<FALSE, "Filename '" \o filename \o "' must start with 'td-'">>
    ELSE IF ~ (endswith(filename, ".yaml") \/ endswith(filename, ".yml"))
    THEN <<FALSE, "Filename '" \o filename \o " must end with '.yaml' or '.yml'">>
    ELSE LET name_part == SubSeq(filename, 4, Len(filename) - 4)
         IN  IF \E i \in 1..Len(name_part) :
                    ~ (isalpha(CharAt(name_part, i)) \/ CharAt(name_part, i) = "-")
             THEN <<FALSE, "Filename '" \o filename \o
                     "' must not contain numbers or special characters (except for hyphens -)">>
             ELSE <<TRUE, "">>

validate_filename(filename) ==
    IF ~ startswith(filename, "td-")
    THEN <<FALSE, "Filename '" \o filename \o "' must start with 'td-'">>
    ELSE IF ~ (endswith(filename, ".yaml") \/ endswith(filename, ".yml"))
    THEN <<FALSE, "Filename '" \o filename \o " must end with '.yaml' or '.yml'">>
    ELSE LET name_part == IF endswith(filename, ".yaml")
                          THEN SubSeq(filename, 4, Len(filename) - 5)
                          ELSE SubSeq(filename, 4, Len(filename) - 4)
         IN  IF \E i \in 1..Len(name_part) :
                    ~ (isalpha(CharAt(name_part, i)) \/ CharAt(name_part, i) = "-")
             THEN <<FALSE, "Filename '" \o filename \o
                     "' must not contain numbers or special characters (except for hyphens -)">>
             ELSE <<TRUE, "">>

---------------------------------------------------------------------------
(* Parsed data (yaml.safe_load results, folder structures) *)

Str(s) == [t |-> "str", v |-> s]

Num(n) == [t |-> "int", v |-> n]

List(seq) == [t |-> "list", v |-> seq]

Dict(f) == [t |-> "dict", v |-> f]

None == [t |-> "none"]

\* bool(x) for the values get_folder_structure tests: an empty dict is falsy.
Truthy(x) ==
    CASE x.t = "dict" -> DOMAIN x.v # {}
      [] x.t = "list" -> Len(x.v) > 0
      [] x.t = "str"  -> x.v # ""
      [] x.t = "int"  -> x.v # 0
      [] OTHER        -> FALSE

---------------------------------------------------------------------------
(* The schema library, as far as the two schemas use it *)

Type(ty) == [s |-> "type", ty |-> ty]

Regex(pattern) == [s |-> "regex", pattern |-> pattern]

And(args) == [s |-> "and", args |-> args]

Or(args) == [s |-> "or", args |-> args]

ListOf(args) == [s |-> "list", args |-> args]

DictOf(keys) == [s |-> "dict", keys |-> keys]

Const(val) == [s |-> "const", val |-> val]

valid_name_pattern == "^[a-zA-Z][a-zA-Z0-9\\- _]*$"

NameChars == AsciiLetters \cup CharsOf(Digits) \cup {"-", " ", "_"}

\* re.search(valid_name_pattern, s): a letter, then letters, digits, hyphens,
\* spaces and underscores to the end; '$' also matches before one final newline.
MatchValidName(s) ==
    LET body == IF endswith(s, "\n") THEN SubSeq(s, 1, Len(s) - 1) ELSE s
    IN  /\ Len(body) >= 1
        /\ CharAt(body, 1) \in AsciiLetters
        /\ \A i \in 2..Len(body) : CharAt(body, i) \in NameChars

RegexSearch(pattern, s) ==
    CASE pattern = valid_name_pattern -> MatchValidName(s)

\* Schema(schema).validate(data) returns (TRUE) or raises SchemaError (FALSE).
RECURSIVE SchemaValidate(_, _)
SchemaValidate(schema, data) ==
    CASE schema.s = "type"  -> data.t = schema.ty
      [] schema.s = "regex" -> data.t = "str" /\ RegexSearch(schema.pattern, data.v)
      [] schema.s = "const" -> data.t = schema.val.t /\ data = schema.val
      [] schema.s = "and"   ->
            \A i \in 1..Len(schema.args) : SchemaValidate(schema.args[i], data)
      [] schema.s = "or"    ->
            \E i \in 1..Len(schema.args) : SchemaValidate(schema.args[i], data)
      [] schema.s = "list"  ->
            /\ data.t = "list"
            /\ \A j \in 1..Len(data.v) :
                  \E i \in 1..Len(schema.args) : SchemaValidate(schema.args[i], data.v[j])
      [] schema.s = "dict"  ->
            /\ data.t = "dict"
            /\ DOMAIN data.v = DOMAIN schema.keys
            /\ \A k \in DOMAIN schema.keys : SchemaValidate(schema.keys[k], data.v[k])

rbac_definition_schema ==
    DictOf([roleName         |-> And(<<Type("str"), Regex(valid_name_pattern)>>),
            description      |-> Type("str"),
            assignableScopes |-> ListOf(<<Type("str")>>),
            permissions      |-> ListOf(<<
                DictOf([actions        |-> ListOf(<<Type("str")>>),
                        notActions     |-> ListOf(<<Type("str")>>),
                        dataActions    |-> ListOf(<<Type("str")>>),
                        notDataActions |-> ListOf(<<Type("str")>>)])>>)])

EnvSchema ==
    DictOf([assignments |-> Or(<<ListOf(<<>>), Const(None)>>),
            definitions |-> Or(<<ListOf(<<>>), Const(None)>>)])

\* The structure schema over the five allowed_environments instead of the three.
repo_structure_schema_allowed ==
    DictOf([englab |-> EnvSchema, qa |-> EnvSchema,
            dev |-> EnvSchema, pat |-> EnvSchema, prod |-> EnvSchema])

repo_structure_schema ==
    DictOf([dev |-> EnvSchema, pat |-> EnvSchema, prod |-> EnvSchema])

---------------------------------------------------------------------------
(* The directory tree under infrastructure/ *)

File == [kind |-> "file"]

Dir(entries) == [kind |-> "dir", entries |-> entries]

NoDir == [kind |-> "absent"]

EmptyDir == Dir(<<>>)

\* The path's components: the text between its slashes, empty ones dropped.
RECURSIVE Components(_)
Components(p) ==
    LET P == {i \in 1..Len(p) : CharAt(p, i) = "/"}
    IN  IF P = {} THEN (IF p = "" THEN <<>> ELSE <<p>>)
        ELSE LET i == CHOOSE i \in P : \A j \in P : i <= j
             IN  (IF i = 1 THEN <<>> ELSE <<SubSeq(p, 1, i - 1)>>)
                 \o Components(SubSeq(p, i + 1, Len(p)))

RECURSIVE Walk(_, _)
Walk(node, comps) ==
    IF comps = <<>> THEN node
    ELSE IF node.kind = "dir" /\ Head(comps) \in DOMAIN node.entries
         THEN Walk(node.entries[Head(comps)], Tail(comps))
         ELSE NoDir

\* The node at `path`, a path that starts with infrastructure/; fs is that directory.
Resolve(fs, path) == Walk(fs, Tail(Components(path)))

\* os.listdir(path), as a set: the order of the listing is unspecified.
listdir(fs, path) == DOMAIN Resolve(fs, path).entries

isdir(fs, path) == Resolve(fs, path).kind = "dir"

---------------------------------------------------------------------------
(* get_folder_structure, get_yaml_files *)

\* FileExits that skips an unexpected file instead of exiting (below).
\* What the traversal does with the file `item` of directory base_dir: the set of
\* transcripts it may exit the process with (empty: the file is accepted).
FileExits_skip(base_dir, item) ==
    LET item_path == join(base_dir, item)
        parent_folder == basename(dirname(item_path))
    IN  IF /\ parent_folder \in {"assignments", "definitions"}
           /\ (endswith(lower(item), ".yaml") \/ endswith(lower(item), ".yml"))
        THEN LET r == validate_filename(item)
             IN  IF ~ r[1] THEN {<<"Error: " \o r[2]>>} ELSE {}
        ELSE {}

FileExits(base_dir, item) ==
    LET item_path == join(base_dir, item)
        parent_folder == basename(dirname(item_path))
    IN  IF /\ parent_folder \in {"assignments", "definitions"}
           /\ (endswith(lower(item), ".yaml") \/ endswith(lower(item), ".yml"))
        THEN LET r == validate_filename(item)
             IN  IF ~ r[1] THEN {<<"Error: " \o r[2]>>} ELSE {}
        ELSE {<<"Error: Unexpected file found: " \o item_path,
                "Only YAML files are allowed in 'assignments' and 'definitions' folders.">>}

\* [exits, structure]: exits holds the transcript of every sys.exit(1) the traversal
\* can reach first under some listing order; when it is empty the traversal returns
\* `structure`.
RECURSIVE get_folder_structure(_, _)
get_folder_structure(fs, base_dir) ==
    LET items  == {item \in listdir(fs, base_dir) : ~ startswith(item, ".")}
        subdirs == {item \in items : isdir(fs, join(base_dir, item))}
        sub    == [item \in subdirs |-> get_folder_structure(fs, join(base_dir, item))]
    IN  [exits     |-> UNION {sub[item].exits : item \in subdirs}
                       \cup UNION {FileExits(base_dir, item) : item \in items \ subdirs},
         structure |-> Dict([item \in subdirs |->
                                IF Truthy(sub[item].structure)
                                THEN sub[item].structure ELSE List(<<>>)])]

\* The paths os.walk(base_dir) collects into yaml_files (as a set).
RECURSIVE YamlFiles(_, _)
YamlFiles(fs, root) ==
    IF ~ isdir(fs, root) THEN {}
    ELSE LET names == listdir(fs, root)
             wdirs == {d \in names : isdir(fs, join(root, d)) /\ d # "Archived"}
             wfiles == {f \in names : ~ isdir(fs, join(root, f))}
         IN  {join(root, f) : f \in
                 {f \in wfiles :
                     /\ ~ endswith(join(root, f), ".github/workflows/validate_control_files.yml")
                     /\ (endswith(lower(f), ".yml") \/ endswith(lower(f), ".yaml"))}}
             \cup UNION {YamlFiles(fs, join(root, d)) : d \in wdirs}

---------------------------------------------------------------------------
(* The validators.  Each takes the state it reads and writes as a record st    *)
(* (the globals ENCOUNTERED_ERROR and status_file_path, the files, the count   *)
(* of status writes, the transcript, the functions entered, and how the call   *)
(* ended: "return", "exit" for sys.exit(1), "raise" for an exception nothing   *)
(* catches) and yields the state it leaves.                                    *)

Put(f, k, val) == [x \in DOMAIN f \cup {k} |-> IF x = k THEN val ELSE f[x]]

Remove(f, k) == [x \in DOMAIN f \ {k} |-> f[x]]

print(st, line) == [st EXCEPT !.out = Append(@, line)]

Enter(st, function) == [st EXCEPT !.calls = Append(@, function)]

\* A file's content is the set of its lines.
write_error_status(st, path) ==
    [Enter(st, "write_error_status") EXCEPT !.files = Put(@, path, {"error"}), !.writes = @ + 1]

\* validate_repo_structure that records a fatal traversal error in the status
\* file before the process exits.
validate_repo_structure_marks(st0, fs, base_dir, repo_schema) ==
    LET st == Enter(st0, "validate_repo_structure")
    IN
    IF ~ isdir(fs, base_dir)
    THEN {[print(st, "FileNotFoundError") EXCEPT !.end = "raise"]}
    ELSE LET r == get_folder_structure(fs, base_dir)
         IN  IF r.exits # {}
             THEN {[write_error_status([st EXCEPT !.ENCOUNTERED_ERROR = TRUE], st.status_file_path)
                        EXCEPT !.out = @ \o e, !.end = "exit"] : e \in r.exits}
             ELSE LET s1 == print(print(st, "Actual folder structure"), "Contents of base_dir")
                  IN  IF SchemaValidate(repo_schema, r.structure)
                      THEN {print(s1, "PASS: Repository folder structure is valid.")}
                      ELSE LET s2 == IF ~ s1.ENCOUNTERED_ERROR
                                     THEN write_error_status(
                                              [print(s1, "FAILURE") EXCEPT !.ENCOUNTERED_ERROR = TRUE],
                                              s1.status_file_path)
                                     ELSE s1
                           IN  {print(s2, "Error: Repository forlder structure validation failed")}

\* All the states validate_repo_structure may leave.
validate_repo_structure(st0, fs, base_dir, repo_schema) ==
    LET st == Enter(st0, "validate_repo_structure")
    IN
    IF ~ isdir(fs, base_dir)
    THEN {[print(st, "FileNotFoundError") EXCEPT !.end = "raise"]}
    ELSE LET r == get_folder_structure(fs, base_dir)
         IN  IF r.exits # {}
             THEN {[st EXCEPT !.out = @ \o e, !.end = "exit"] : e \in r.exits}
             ELSE LET s1 == print(print(st, "Actual folder structure"), "Contents of base_dir")
                  IN  IF SchemaValidate(repo_schema, r.structure)
                      THEN {print(s1, "PASS: Repository folder structure is valid.")}
                      ELSE LET s2 == IF ~ s1.ENCOUNTERED_ERROR
                                     THEN write_error_status(
                                              [print(s1, "FAILURE") EXCEPT !.ENCOUNTERED_ERROR = TRUE],
                                              s1.status_file_path)
                                     ELSE s1
                           IN  {print(s2, "Error: Repository forlder structure validation failed")}

validate_rbac_definition(st0, data, rbac_schema) ==
    LET st == Enter(st0, "validate_rbac_definition")
    IN
    IF SchemaValidate(rbac_schema, data)
    THEN print(st, "PASS: RBAC definition is valid.")
    ELSE IF ~ st.ENCOUNTERED_ERROR THEN print(st, "FAILURE") ELSE st

\* repo: path -> content of the files the caller names; a content is Malformed
\* (yaml.safe_load raises YAMLError) or Yaml(data) (it returns data).
Malformed == [kind |-> "malformed"]

Yaml(data) == [kind |-> "yaml", data |-> data]

\* validate without the `if not ENCOUNTERED_ERROR` guards: every error writes.
validate_unguarded(st0, repo, file_path, this_schema) ==
    LET st == Enter(st0, "validate")
    IN
    IF file_path \notin DOMAIN repo
    THEN [print(st, "FileNotFoundError") EXCEPT !.end = "raise"]
    ELSE LET s1 ==
               IF repo[file_path].kind = "malformed"
               THEN LET s2 == write_error_status(
                                  [print(st, "FAILURE") EXCEPT !.ENCOUNTERED_ERROR = TRUE],
                                  st.status_file_path)
                    IN  print(s2, "==> Error: YAML parsing error")
               ELSE IF ~ SchemaValidate(this_schema, repo[file_path].data)
               THEN LET s2 == write_error_status(
                                  [print(st, "FAILURE") EXCEPT !.ENCOUNTERED_ERROR = TRUE],
                                  st.status_file_path)
                    IN  print(s2, "===> Error: Schema validation error")
               ELSE st
         IN  IF ~ s1.ENCOUNTERED_ERROR THEN print(s1, "PASS") ELSE s1

validate(st0, repo, file_path, this_schema) ==
    LET st == Enter(st0, "validate")
    IN
    IF file_path \notin DOMAIN repo
    THEN [print(st, "FileNotFoundError") EXCEPT !.end = "raise"]
    ELSE LET s1 ==
               IF repo[file_path].kind = "malformed"
               THEN LET s2 == IF ~ st.ENCOUNTERED_ERROR
                              THEN write_error_status(
                                       [print(st, "FAILURE") EXCEPT !.ENCOUNTERED_ERROR = TRUE],
                                       st.status_file_path)
                              ELSE st
                    IN  print(s2, "==> Error: YAML parsing error")
               ELSE IF ~ SchemaValidate(this_schema, repo[file_path].data)
               THEN LET s2 == IF ~ st.ENCOUNTERED_ERROR
                              THEN write_error_status(
                                       [print(st, "FAILURE") EXCEPT !.ENCOUNTERED_ERROR = TRUE],
                                       st.status_file_path)
                              ELSE st
                    IN  print(s2, "===> Error: Schema validation error")
               ELSE st
         IN  IF ~ s1.ENCOUNTERED_ERROR THEN print(s1, "PASS") ELSE s1

\* validate_file that returns after a prefix mismatch instead of going on to
\* the content.
validate_file_abort(st, repo, file_path) ==
    LET s0 == print(print(Enter(st, "validate_file"),
                          IF st.ENCOUNTERED_ERROR THEN "ENCOUNTERED_ERROR: True"
                                                  ELSE "ENCOUNTERED_ERROR: False"),
                    "==> Validating: " \o file_path)
        file_name == basename(file_path)
        file_prefix == FirstToken(file_name)
    IN  IF file_prefix # "td"
        THEN LET s2 == IF ~ s0.ENCOUNTERED_ERROR
                       THEN write_error_status(
                                [print(s0, "FAILURE") EXCEPT !.ENCOUNTERED_ERROR = TRUE],
                                s0.status_file_path)
                       ELSE s0
             IN  print(s2, "===> Error: Filename prefix '" \o file_prefix
                               \o "' must start with 'td-'.")
        ELSE validate(s0, repo, file_path, rbac_definition_schema)

validate_file(st, repo, file_path) ==
    LET s0 == print(print(Enter(st, "validate_file"),
                          IF st.ENCOUNTERED_ERROR THEN "ENCOUNTERED_ERROR: True"
                                                  ELSE "ENCOUNTERED_ERROR: False"),
                    "==> Validating: " \o file_path)
        file_name == basename(file_path)
        file_prefix == FirstToken(file_name)
        s1 == IF file_prefix # "td"
              THEN LET s2 == IF ~ s0.ENCOUNTERED_ERROR
                             THEN write_error_status(
                                      [print(s0, "FAILURE") EXCEPT !.ENCOUNTERED_ERROR = TRUE],
                                      s0.status_file_path)
                             ELSE s0
                   IN  print(s2, "===> Error: Filename prefix '" \o file_prefix
                                     \o "' must start with 'td-'.")
              ELSE s0
    IN  validate(s1, repo, file_path, rbac_definition_schema)

---------------------------------------------------------------------------
(* Inputs *)

\* name :> node, or nothing when the node is absent
Opt(name, node) == IF node.kind = "absent" THEN <<>> ELSE name :> node

LeafFilePool == {"td-a.yaml", "td-role2.yaml", "td-a.json", "td-b.YML", ".gitkeep"}

\* What an assignments/ or definitions/ directory may hold.
LeafDirs ==
    {EmptyDir} \cup {Dir(f :> File) : f \in LeafFilePool}
    \cup {Dir("sub" :> EmptyDir), Dir("sub" :> Dir("td-a.yaml" :> File))}

EnvDir(a, d, extra) == Dir(Opt("assignments", a) @@ Opt("definitions", d) @@ extra)

CanonicalEnv == EnvDir(EmptyDir, EmptyDir, <<>>)

\* An environment directory: the canonical one with one of its parts changed.
EnvDirs ==
    {EnvDir(a, EmptyDir, <<>>) : a \in LeafDirs \cup {NoDir}}
    \cup {EnvDir(EmptyDir, d, <<>>) : d \in LeafDirs \cup {NoDir}}
    \cup {EnvDir(EmptyDir, EmptyDir, x) :
            x \in {"extra" :> EmptyDir, "notes.txt" :> File, ".DS_Store" :> File}}
    \cup {EmptyDir}

RootExtras ==
    {<<>>, "qa" :> CanonicalEnv, "README.md" :> File, ".gitkeep" :> File,
     ".git" :> Dir("config" :> File)}

Trees ==
    {Dir(Opt("dev", dev) @@ Opt("pat", pat) @@ Opt("prod", prod) @@ extra) :
        dev \in EnvDirs \cup {NoDir},
        pat \in {CanonicalEnv, NoDir, EmptyDir, EnvDir(Dir("td-a.json" :> File), EmptyDir, <<>>)},
        prod \in {CanonicalEnv, NoDir}, extra \in RootExtras}
    \cup {NoDir}

CanonicalTree == Dir(Opt("dev", CanonicalEnv) @@ Opt("pat", CanonicalEnv) @@ Opt("prod", CanonicalEnv))

Argvs ==
    {<<"validate-files.py">>, <<"validate-files.py", "-d">>,
     <<"validate-files.py", "files.txt">>, <<"validate-files.py", "-d", "files.txt">>}

\* os.getenv("VALIDATION_STATUS"): unset or empty, or a path
EnvValues == {"", "/ci/status"}

\* RBAC documents
GoodPerm ==
    Dict([actions |-> List(<<Str("Microsoft.Compute/*/read")>>), notActions |-> List(<<>>),
          dataActions |-> List(<<Str("*")>>), notDataActions |-> List(<<>>)])

PermNoNotActions ==
    Dict([actions |-> List(<<Str("*")>>), dataActions |-> List(<<>>), notDataActions |-> List(<<>>)])

PermIntAction ==
    Dict([actions |-> List(<<Num(1)>>), notActions |-> List(<<>>),
          dataActions |-> List(<<>>), notDataActions |-> List(<<>>)])

GoodDoc ==
    [roleName         |-> Str("Reader Role-1_a"),
     description      |-> Str("Can read"),
     assignableScopes |-> List(<<Str("/subscriptions/0")>>),
     permissions      |-> List(<<GoodPerm, GoodPerm>>)]

\* The document's key k set to val
With(doc, k, val) == [x \in DOMAIN doc \cup {k} |-> IF x = k THEN val ELSE doc[x]]

\* The document without its key k
Without(doc, k) == [x \in DOMAIN doc \ {k} |-> doc[x]]

\* RBAC documents: the good one, and it with one key changed, dropped or added.
Docs ==
    {Dict(GoodDoc)}
    \cup {Dict(Without(GoodDoc, k)) : k \in DOMAIN GoodDoc}
    \cup {Dict(With(GoodDoc, "roleName", r)) : r \in {Str("2bad"), Str("Reader\n"), Num(7)}}
    \cup {Dict(With(GoodDoc, "description", Num(1)))}
    \cup {Dict(With(GoodDoc, "assignableScopes", a)) : a \in {Str("/"), List(<<>>), List(<<Num(0)>>)}}
    \cup {Dict(With(GoodDoc, "permissions", p)) :
            p \in {List(<<>>), List(<<GoodPerm, PermNoNotActions>>), List(<<PermIntAction>>), GoodPerm}}
    \cup {Dict(With(GoodDoc, "id", Str("x")))}
    \cup {None, List(<<Str("roleName")>>)}

Contents == {Yaml(d) : d \in Docs} \cup {Malformed}

FilePaths ==
    {"infrastructure/dev/definitions/td-reader.yaml", "infrastructure/dev/definitions/reader-td.yaml",
     "td_reader.yml", "td.yaml"}

\* The trees the caller validates
CallTrees ==
    {Dir(Opt("dev", e) @@ Opt("pat", CanonicalEnv) @@ Opt("prod", CanonicalEnv)) :
        e \in {CanonicalEnv, NoDir, EmptyDir,
               EnvDir(Dir("td-a.yaml" :> File), EmptyDir, <<>>),
               EnvDir(Dir("sub" :> EmptyDir), EmptyDir, <<>>),
               EnvDir(Dir("td-role2.yaml" :> File), EmptyDir, <<>>),
               EnvDir(EmptyDir, EmptyDir, "notes.txt" :> File)}}
    \cup {Dir(Opt("dev", CanonicalEnv) @@ Opt("pat", CanonicalEnv) @@ Opt("prod", CanonicalEnv) @@ x) :
        x \in {"qa" :> CanonicalEnv, ".gitkeep" :> File}}

\* Filenames: a prefix, a body of at most MaxBody characters, an extension.
RECURSIVE Strings(_, _)
Strings(chars, n) ==
    IF n = 0 THEN {""} ELSE {""} \cup {c \o w : c \in chars, w \in Strings(chars, n - 1)}

Filenames ==
    {pre \o body \o ext :
        pre \in {"td-", "td_", "td", "", "Td-"},
        body \in Strings({"a", "Z", "-", "2", "_", ".", "é"}, MaxBody),
        ext \in {".yaml", ".yml", ".YAML", ".json", "", "yaml"}}

---------------------------------------------------------------------------
(* The process: main *)

TempDirName == "/tmp/validation_temp_k3x9"

Session ==
    [ENCOUNTERED_ERROR |-> ENCOUNTERED_ERROR, status_file_path |-> status_file_path,
     files |-> files, writes |-> writes, out |-> <<>>, calls |-> <<>>, end |-> "return"]

\* The globals and the files become what a validator left.
Apply(st) ==
    /\ ENCOUNTERED_ERROR' = st.ENCOUNTERED_ERROR
    /\ files' = st.files
    /\ writes' = st.writes
    /\ out' = st.out

die(msg) ==
    /\ out' = <<msg>>
    /\ pc' = "exited"
    /\ exit_code' = 1

\* [name, lines]: the temporary file get_yaml_files creates and what it writes to it.
get_yaml_files(fs, base_dir) ==
    [name |-> join(temp_dir, "tmp_files_list"), lines |-> YamlFiles(fs, base_dir)]

Init ==
    /\ pc = "main"
    /\ \E a \in Argvs, t \in Trees :
          /\ sys_argv = a
          /\ infrastructure = t
          /\ (Len(a) = 2 \/ t = CanonicalTree)    \* only a run with one argument reads the tree
    /\ files = <<>>
    /\ dirs = {}
    /\ temp_dir = ""
    /\ status_file_path = ""
    /\ files_list_path = ""
    /\ ENCOUNTERED_ERROR = FALSE
    /\ writes = 0
    /\ out = <<>>
    /\ exit_code = -1
    /\ ncalls = 0
    /\ last = [op |-> "none"]

MainMkdtemp ==
    /\ pc = "main"
    /\ temp_dir' = TempDirName
    /\ dirs' = dirs \cup {TempDirName}
    /\ pc' = "check_argc"
    /\ out' = <<>>
    /\ UNCHANGED <<sys_argv, infrastructure, files, status_file_path, files_list_path,
                   ENCOUNTERED_ERROR, writes, exit_code, ncalls, last>>

MainCheckArgc ==
    /\ pc = "check_argc"
    /\ IF Len(sys_argv) # 2
       THEN die("Usage: python3 .github/validate_control_files.py [-d] | <files_list.txt>")
       ELSE pc' = "mode" /\ out' = <<>> /\ UNCHANGED exit_code
    /\ UNCHANGED <<sys_argv, infrastructure, files, dirs, temp_dir, status_file_path,
                   files_list_path, ENCOUNTERED_ERROR, writes, ncalls, last>>

MainDebugMode ==
    /\ pc = "mode"
    /\ sys_argv[2] = "-d"
    /\ LET list == get_yaml_files(infrastructure, "infrastructure/")
           temp_status == join(temp_dir, "tmp_status")
       IN  /\ files_list_path' = list.name
           /\ status_file_path' = temp_status
           /\ files' = Put(Put(files, list.name, list.lines), temp_status, {})
    /\ pc' = "check_list"
    /\ out' = <<>>
    /\ UNCHANGED <<sys_argv, infrastructure, dirs, temp_dir, ENCOUNTERED_ERROR, writes,
                   exit_code, ncalls, last>>

MainFileListMode ==
    /\ pc = "mode"
    /\ sys_argv[2] # "-d"
    /\ files_list_path' = sys_argv[2]
    /\ \E v \in EnvValues :
          /\ status_file_path' = v
          /\ IF v = ""
             THEN die("Error. VALIDATION_STATUS environment variable is not set.")
             ELSE pc' = "check_list" /\ out' = <<>> /\ UNCHANGED exit_code
    /\ UNCHANGED <<sys_argv, infrastructure, files, dirs, temp_dir, ENCOUNTERED_ERROR,
                   writes, ncalls, last>>

MainCheckFilesList ==
    /\ pc = "check_list"
    /\ \E isfile \in BOOLEAN :
          /\ files_list_path \in DOMAIN files => isfile
          /\ IF ~ isfile
             THEN die("Error: " \o files_list_path \o ": is not a valid file.")
             ELSE pc' = "validate" /\ out' = <<>> /\ UNCHANGED exit_code
    /\ UNCHANGED <<sys_argv, infrastructure, files, dirs, temp_dir, status_file_path,
                   files_list_path, ENCOUNTERED_ERROR, writes, ncalls, last>>

MainValidateRepoStructure ==
    /\ pc = "validate"
    /\ \E st \in validate_repo_structure(Session, infrastructure, "infrastructure/",
                                         repo_structure_schema) :
          /\ Apply(st)
          /\ pc' = CASE st.end = "return" -> "cleanup"
                     [] st.end = "exit"   -> "exited"
                     [] st.end = "raise"  -> "crashed"
          /\ exit_code' = IF st.end = "return" THEN exit_code ELSE 1
    /\ UNCHANGED <<sys_argv, infrastructure, dirs, temp_dir, status_file_path,
                   files_list_path, ncalls, last>>

MainCleanup ==
    /\ pc = "cleanup"
    /\ IF sys_argv[2] = "-d"
       THEN /\ files' = Remove(Remove(files, status_file_path), files_list_path)
            /\ dirs' = dirs \ {temp_dir}
       ELSE UNCHANGED <<files, dirs>>
    /\ pc' = "done"
    /\ exit_code' = 0
    /\ out' = <<>>
    /\ UNCHANGED <<sys_argv, infrastructure, temp_dir, status_file_path, files_list_path,
                   ENCOUNTERED_ERROR, writes, ncalls, last>>

Next ==
    \/ MainMkdtemp
    \/ MainCheckArgc
    \/ MainDebugMode
    \/ MainFileListMode
    \/ MainCheckFilesList
    \/ MainValidateRepoStructure
    \/ MainCleanup

Spec == Init /\ [][Next]_vars

---------------------------------------------------------------------------
(* A caller of the validators: after main's set-up in file-list mode, the      *)
(* validators are called in any order, at most MaxCalls times.                 *)

InitCalls ==
    /\ pc = "caller"
    /\ sys_argv = <<"validate-files.py", "files.txt">>
    /\ infrastructure = CanonicalTree
    /\ files = <<>>
    /\ dirs = {TempDirName}
    /\ temp_dir = TempDirName
    /\ status_file_path = "/ci/status"
    /\ files_list_path = "files.txt"
    /\ ENCOUNTERED_ERROR = FALSE
    /\ writes = 0
    /\ out = <<>>
    /\ exit_code = -1
    /\ ncalls = 0
    /\ last = [op |-> "none"]

\* The call returned, exited the process or raised.
Ended(st) ==
    /\ pc' = CASE st.end = "return" -> "caller"
               [] st.end = "exit"   -> "exited"
               [] st.end = "raise"  -> "crashed"
    /\ exit_code' = IF st.end = "return" THEN exit_code ELSE 1
    /\ ncalls' = ncalls + 1

Missing == [kind |-> "missing"]

RepoWith(file_path, content) == IF content.kind = "missing" THEN <<>> ELSE file_path :> content

CallValidateRepoStructure ==
    /\ pc = "caller"
    /\ ncalls < MaxCalls
    /\ \E t \in CallTrees :
          /\ \E st \in validate_repo_structure(Session, t, "infrastructure/", repo_structure_schema) :
                /\ Apply(st)
                /\ Ended(st)
                /\ last' = [op |-> "validate_repo_structure", arg |-> t,
                          before |-> ENCOUNTERED_ERROR, calls |-> st.calls]
    /\ UNCHANGED <<sys_argv, infrastructure, dirs, temp_dir, status_file_path, files_list_path>>

CallValidateRbacDefinition ==
    /\ pc = "caller"
    /\ ncalls < MaxCalls
    /\ \E data \in Docs :
          LET st == validate_rbac_definition(Session, data, rbac_definition_schema)
          IN  /\ Apply(st)
              /\ Ended(st)
              /\ last' = [op |-> "validate_rbac_definition", arg |-> data,
                          before |-> ENCOUNTERED_ERROR, calls |-> st.calls]
    /\ UNCHANGED <<sys_argv, infrastructure, dirs, temp_dir, status_file_path, files_list_path>>

CallValidate ==
    /\ pc = "caller"
    /\ ncalls < MaxCalls
    /\ \E file_path \in {"infrastructure/dev/definitions/td-reader.yaml"},
          content \in Contents \cup {Missing} :
          LET st == validate(Session, RepoWith(file_path, content), file_path, rbac_definition_schema)
          IN  /\ Apply(st)
              /\ Ended(st)
              /\ last' = [op |-> "validate", arg |-> <<file_path, content>>,
                          before |-> ENCOUNTERED_ERROR, calls |-> st.calls]
    /\ UNCHANGED <<sys_argv, infrastructure, dirs, temp_dir, status_file_path, files_list_path>>

\* The caller's loop body with its reset of the flag after each file.
CallValidateFile_Reset ==
    /\ pc = "caller"
    /\ ncalls < MaxCalls
    /\ \E file_path \in FilePaths, content \in Contents \cup {Missing} :
          LET st == validate_file(Session, RepoWith(file_path, content), file_path)
          IN  /\ Apply([st EXCEPT !.ENCOUNTERED_ERROR = FALSE])
              /\ Ended(st)
              /\ last' = [op |-> "validate_file", arg |-> <<file_path, content>>,
                          before |-> ENCOUNTERED_ERROR, calls |-> st.calls]
    /\ UNCHANGED <<sys_argv, infrastructure, dirs, temp_dir, status_file_path, files_list_path>>

CallValidateFile ==
    /\ pc = "caller"
    /\ ncalls < MaxCalls
    /\ \E file_path \in FilePaths, content \in Contents \cup {Missing} :
          LET st == validate_file(Session, RepoWith(file_path, content), file_path)
          IN  /\ Apply(st)
              /\ Ended(st)
              /\ last' = [op |-> "validate_file", arg |-> <<file_path, content>>,
                          before |-> ENCOUNTERED_ERROR, calls |-> st.calls]
    /\ UNCHANGED <<sys_argv, infrastructure, dirs, temp_dir, status_file_path, files_list_path>>

NextCalls ==
    \/ CallValidateRepoStructure
    \/ CallValidateRbacDefinition
    \/ CallValidate
    \/ CallValidateFile

SpecCalls == InitCalls /\ [][NextCalls]_vars

---------------------------------------------------------------------------
(* validate_filename applied to one filename *)

InitFilename ==
    /\ pc = "filename"
    /\ sys_argv = <<"validate-files.py">>
    /\ infrastructure = CanonicalTree
    /\ files = <<>>
    /\ dirs = {}
    /\ temp_dir = ""
    /\ status_file_path = ""
    /\ files_list_path = ""
    /\ ENCOUNTERED_ERROR = FALSE
    /\ writes = 0
    /\ out = <<>>
    /\ exit_code = -1
    /\ ncalls = 0
    /\ last = [op |-> "none"]

CallValidateFilename ==
    /\ pc = "filename"
    /\ \E filename \in Filenames :
          last' = [op |-> "validate_filename", arg |-> filename, ret |-> validate_filename(filename)]
    /\ pc' = "returned"
    /\ UNCHANGED <<sys_argv, infrastructure, files, dirs, temp_dir, status_file_path,
                   files_list_path, ENCOUNTERED_ERROR, writes, out, exit_code, ncalls>>

NextFilename == CallValidateFilename

SpecFilename == InitFilename /\ [][NextFilename]_vars

---------------------------------------------------------------------------
(* Claims *)

\* f = 'td-' body ext with ext '.yaml' or '.yml' and a body of n characters of the
\* class `chars`
HasShape(f, n, chars) ==
    \E ext \in {".yaml", ".yml"} :
        /\ Len(f) = 3 + n + Len(ext)
        /\ SubSeq(f, 1, 3) = "td-"
        /\ SubSeq(f, 4 + n, Len(f)) = ext
        /\ \A i \in 4..(3 + n) : CharAt(f, i) \in chars

\* C1 as stated: validate_filename(f) returns (True, "") exactly when f matches
\* ^td-[A-Za-z-]+\.(yaml|yml)$: a non-empty body of ASCII letters and hyphens.
C1_MatchesPattern ==
    last.op = "validate_filename" =>
        (last.ret = <<TRUE, "">>
            <=> \E n \in 1..Len(last.arg) : HasShape(last.arg, n, AsciiLetters \cup {"-"}))

\* C1: validate_filename(f) returns (True, "") exactly when f is 'td-', then a
\* possibly empty body of hyphens and alphabetic characters (str.isalpha: any
\* letter, ASCII or not), then '.yaml' or '.yml'; otherwise it returns False with
\* a message.
C1_ValidFilename ==
    last.op = "validate_filename" =>
        /\ last.ret[1] <=>
              \E n \in 0..Len(last.arg) :
                  HasShape(last.arg, n, AsciiLetters \cup NonAsciiLetters \cup {"-"})
        /\ last.ret[1] <=> last.ret[2] = ""

\* validate_filename has accepted a name with an empty body
C1_Witness ==
    /\ last.op = "validate_filename"
    /\ last.arg = "td-.yaml"
    /\ last.ret[1]

---------------------------------------------------------------------------

Lines(seq) == {seq[i] : i \in 1..Len(seq)}

\* The last step printed a failure.
ReportedFailure ==
    \E line \in Lines(out) :
        \/ line = "FAILURE"
        \/ startswith(line, "Error: Repository")
        \/ startswith(line, "==> Error")
        \/ startswith(line, "===> Error")

StatusIsError == status_file_path \in DOMAIN files /\ files[status_file_path] = {"error"}

\* C2: write_error_status is executed at most once in a run, whatever validators
\* are called and whatever they find: it has been executed exactly when the flag
\* is set, and the status file then holds 'error'.
C2_WriteAtMostOnce ==
    /\ writes <= 1
    /\ writes = 1 <=> ENCOUNTERED_ERROR
    /\ writes = 1 => StatusIsError

\* a second failure has been reported and the status file written once
C2_Witness ==
    /\ last.op \in {"validate", "validate_file", "validate_repo_structure"}
    /\ last.before
    /\ ReportedFailure
    /\ writes = 1

\* C3: the flag starts False, becomes True only in a step that reports a failure,
\* and no step sets it back to False.
C3_CleanToErrored ==
    /\ ~ ENCOUNTERED_ERROR
    /\ [][/\ ENCOUNTERED_ERROR => ENCOUNTERED_ERROR'
          /\ (~ ENCOUNTERED_ERROR /\ ENCOUNTERED_ERROR') => ReportedFailure']_vars

\* a check has passed after the flag was set, and the flag is still set
C3_Witness ==
    /\ last.op = "validate_rbac_definition"
    /\ last.before
    /\ "PASS: RBAC definition is valid." \in Lines(out)
    /\ ENCOUNTERED_ERROR

\* C4: after any validator has reported a failure the flag is True and the status
\* file holds 'error'.
C4_FailureSetsFlag ==
    (last.op # "none" /\ ReportedFailure) => (ENCOUNTERED_ERROR /\ StatusIsError)

IsStrList(x) == x.t = "list" /\ \A i \in 1..Len(x.v) : x.v[i].t = "str"

WellFormedRbac(data) ==
    /\ data.t = "dict"
    /\ DOMAIN data.v = {"roleName", "description", "assignableScopes", "permissions"}
    /\ data.v["roleName"].t = "str" /\ MatchValidName(data.v["roleName"].v)
    /\ data.v["description"].t = "str"
    /\ IsStrList(data.v["assignableScopes"])
    /\ data.v["permissions"].t = "list"
    /\ \A i \in 1..Len(data.v["permissions"].v) :
          LET perm == data.v["permissions"].v[i]
          IN  /\ perm.t = "dict"
              /\ DOMAIN perm.v = {"actions", "notActions", "dataActions", "notDataActions"}
              /\ \A k \in DOMAIN perm.v : IsStrList(perm.v[k])

\* C7: validate, called on a file that holds a well-formed RBAC document, prints
\* PASS, whatever happened earlier in the run or in the same validate_file call.
C7_WellFormedPasses ==
    (/\ last.op \in {"validate", "validate_file"}
     /\ last.arg[2].kind = "yaml"
     /\ WellFormedRbac(last.arg[2].data))
    => "PASS" \in Lines(out)

\* C9: validate_file always goes on to validate, and a prefix other than 'td'
\* leaves the flag set and 'error' in the status file.
C9_PrefixAndContent ==
    last.op = "validate_file" =>
        /\ "validate" \in Lines(last.calls)
        /\ FirstToken(basename(last.arg[1])) # "td" =>
              /\ ENCOUNTERED_ERROR
              /\ StatusIsError
              /\ \E line \in Lines(out) : startswith(line, "===> Error: Filename prefix")

\* in a clean run validate_file has met a wrong prefix on a well-formed file
C9_Witness ==
    /\ last.op = "validate_file"
    /\ ~ last.before
    /\ FirstToken(basename(last.arg[1])) # "td"
    /\ last.arg[2].kind = "yaml" /\ WellFormedRbac(last.arg[2].data)
    /\ "validate" \in Lines(last.calls)
    /\ writes = 1

---------------------------------------------------------------------------

Envs == {"dev", "pat", "prod"}

Subs == {"assignments", "definitions"}

\* The mapping get_folder_structure builds for the tree
Structure == get_folder_structure(infrastructure, "infrastructure/").structure

EmptyOrNull(x) == (x.t = "list" /\ Len(x.v) = 0) \/ x.t = "none"

\* validate_repo_structure has returned
Returned == pc \in {"cleanup", "done"}

\* The top-level keys are not exactly the three environments, or some
\* environment's assignments or definitions value is neither empty nor null.
KeysOrValuesDiffer(m) ==
    \/ DOMAIN m.v # Envs
    \/ \E e \in DOMAIN m.v :
          /\ m.v[e].t = "dict"
          /\ \E k \in Subs \cap DOMAIN m.v[e].v : ~ EmptyOrNull(m.v[e].v[k])

\* C5 as stated: when the traversal returns, a failure is recorded exactly when the
\* top-level keys differ from {dev, pat, prod} or an assignments/definitions value
\* is non-empty.
C5_KeysOrValues ==
    Returned => (ENCOUNTERED_ERROR <=> KeysOrValuesDiffer(Structure))

\* C5: when the traversal returns, a failure is recorded (flag set and, as
\* validate_repo_structure returns, 'error' written and the error printed) exactly when the
\* top-level keys differ from {dev, pat, prod}, or some environment's value is not
\* a mapping with exactly the keys assignments and definitions, or one of those
\* two values is neither empty nor null.
C5_StructureFailure ==
    Returned =>
        LET deviates ==
                \/ DOMAIN Structure.v # Envs
                \/ \E e \in Envs :
                      ~ (/\ Structure.v[e].t = "dict"
                         /\ DOMAIN Structure.v[e].v = Subs
                         /\ \A k \in Subs : EmptyOrNull(Structure.v[e].v[k]))
        IN  /\ ENCOUNTERED_ERROR <=> deviates
            /\ pc = "cleanup" => /\ ENCOUNTERED_ERROR <=> StatusIsError
                                 /\ ENCOUNTERED_ERROR <=> ReportedFailure

\* a failure recorded for a tree with the three environments and no non-empty
\* assignments or definitions value: an environment lacks or adds a subfolder
C5_Witness ==
    /\ pc = "done"
    /\ ENCOUNTERED_ERROR
    /\ ~ KeysOrValuesDiffer(Structure)

\* The files of a directory tree, each with its name, the name of its directory,
\* whether a directory above it is named assignments or definitions, and whether
\* it or a directory above it is hidden.
RECURSIVE FileEntries(_, _, _, _)
FileEntries(dir, name, under, hidden) ==
    UNION {IF dir.entries[n].kind = "file"
           THEN {[name |-> n, parent |-> name, under |-> under,
                  hidden |-> hidden \/ startswith(n, ".")]}
           ELSE FileEntries(dir.entries[n], n, under \/ n \in Subs,
                            hidden \/ startswith(n, "."))
           : n \in DOMAIN dir.entries}

TreeFiles ==
    IF infrastructure.kind = "dir"
    THEN FileEntries(infrastructure, "infrastructure", FALSE, FALSE)
    ELSE {}

\* A file outside every assignments/definitions directory, or directly under one
\* with an extension other than .yaml/.yml
Misplaced(f) ==
    \/ ~ f.under
    \/ f.parent \in Subs /\ ~ (endswith(f.name, ".yaml") \/ endswith(f.name, ".yml"))

\* C6 as stated: a tree with a misplaced file never gets through the traversal.
C6_MisplacedIsFatal ==
    (\E f \in TreeFiles : Misplaced(f)) => ~ Returned

\* C6: a tree with a misplaced file that is not hidden (neither its name nor the
\* name of a directory above it starts with '.') never gets through the traversal:
\* the process is in main before the call or has exited with code 1.
C6_VisibleMisplacedIsFatal ==
    (\E f \in TreeFiles : Misplaced(f) /\ ~ f.hidden) =>
        /\ ~ Returned
        /\ pc \in {"exited", "crashed"} => exit_code = 1
        /\ ~ ENCOUNTERED_ERROR

\* the traversal has ended the process on an unexpected file
C6_Witness ==
    /\ pc = "exited"
    /\ \E f \in TreeFiles : Misplaced(f) /\ ~ f.hidden
    /\ \E line \in Lines(out) : startswith(line, "Error: Unexpected file found")

\* C8: a -d run that has ended has removed the temporary directory and every file
\* in it.
C8_TempArtifactsRemoved ==
    (/\ Len(sys_argv) = 2
     /\ sys_argv[2] = "-d"
     /\ pc \in {"done", "exited"})
    => /\ temp_dir \notin dirs
       /\ \A path \in DOMAIN files : dirname(path) # temp_dir

\* C10: a process ended by die or by the traversal's sys.exit(1) has exit code 1,
\* the flag False and no status write; the status file does not read 'error'.
C10_FatalLeavesStatusClean ==
    pc = "exited" =>
        /\ exit_code = 1
        /\ ~ ENCOUNTERED_ERROR
        /\ writes = 0
        /\ ~ StatusIsError

\* a file-list run ended by the traversal with VALIDATION_STATUS set
C10_Witness ==
    /\ pc = "exited"
    /\ Len(sys_argv) = 2
    /\ sys_argv[2] = "files.txt"
    /\ status_file_path = "/ci/status"
    /\ \E line \in Lines(out) : startswith(line, "Error: ")
    /\ temp_dir \in dirs

====
